---- MODULE Spec2Model ----
(***************************************************************************)
(* payrex_derive: the attribute macro payrex_attr (Field Synthesizer), the *)
(* derive macro Payrex (Builder Method Synthesizer), and the constructor   *)
(* and setters the derive generates, as they run on a value.               *)
(***************************************************************************)
EXTENDS Integers, Sequences, FiniteSets, TLC

VARIABLES
    pc,         \* position of the pipeline
    metas,      \* darling's accumulators for the annotation read so far
    item,       \* the struct handed to the macro: its shape and fields
    fields,     \* the struct's field list (input_struct.fields)
    mirror,     \* the tokens of the Optional<Name> struct, if emitted
    impl,       \* the impl block the derive emitted
    value,      \* an instance of the struct at run time
    last        \* the last generated method called on value

vars == <<pc, metas, item, fields, mirror, impl, value, last>>

\* Longest author-written field list of an input struct.
MaxFields == 2

-----------------------------------------------------------------------------
(* Option<T> of Rust: None is <<>>, Some(x) is <<x>>.                       *)
None == <<>>
Some(x) == <<x>>
is_some(o) == o # <<>>
unwrap(o) == o[1]

-----------------------------------------------------------------------------
(* syn::Type, as far as utils.rs and fields.rs look into it: whether it is  *)
(* a Type::Path, whether the path has a qself, the identifier of the last   *)
(* path segment and that segment's angle-bracketed arguments.               *)
Ty(name) == [path |-> TRUE, qself |-> FALSE, seg |-> name, args |-> <<>>]
Generic(name, inner) == [path |-> TRUE, qself |-> FALSE, seg |-> name, args |-> <<inner>>]
OptionOf(inner) == Generic("Option", inner)
\* a type that is no path, such as a tuple or a reference
TupleTy == [path |-> FALSE, qself |-> FALSE, seg |-> "", args |-> <<>>]

is_type(ty, name) == ty.path /\ ty.seg = name

is_type_deep(ty, name) ==
    IF ~(ty.path /\ ~ty.qself) THEN FALSE ELSE ty.seg = name

get_option_inner(ty) ==
    IF ~(ty.path /\ ~ty.qself) THEN None
    ELSE IF ty.seg # "Option" THEN None
    ELSE IF Len(ty.args) # 1 THEN None
    ELSE Some(ty.args[1])

-----------------------------------------------------------------------------
(* syn::Field: identifier, type, doc attributes, the serde                  *)
(* skip_serializing_if attribute and the field-level #[payrex(...)].        *)
NoPayrex == [kind |-> "none", description |-> ""]
Described(d) == [kind |-> "desc", description |-> d]
\* a #[payrex(...)] darling cannot read, e.g. a misspelt key
Unreadable == [kind |-> "bad", description |-> ""]

Field(ident, ty, doc, skip, payrex) ==
    [ident |-> ident, ty |-> ty, doc |-> doc, skip |-> skip, payrex |-> payrex]

-----------------------------------------------------------------------------
(* The types the crate's structs use.                                       *)
StringTy == Ty("String")
U64 == Ty("u64")
Bool == Ty("bool")
Timestamp == Ty("Timestamp")
Metadata == Ty("Metadata")
Currency == Ty("Currency")
CustomerId == Ty("CustomerId")
ListParams == Ty("ListParams")
VecEventType == Generic("Vec", Ty("EventType"))

-----------------------------------------------------------------------------
(* fields.rs: PayrexAttrs, read by darling from the annotation's list.      *)
BoolSwitches == {"timestamp", "metadata", "amount", "livemode", "currency", "optional"}
Switches == BoolSwitches \cup {"description"}

\* No switch written yet: every accumulator of from_list is empty.
NoMetas == [s \in Switches |-> None]

\* The ways a boolean switch is written: amount, amount = true, amount = false.
BoolForms == {"word", "true", "false"}
bool_from_meta(form) == form # "false"

\* The keys of add_description's templates, and a key it does not know.
DescriptionKeys ==
    {"refund", "payment", "payment_intent", "webhook", "checkout_session",
     "billing_statements", "billing_statement_line_items"}
UnknownKeys == {"webhooks"}

\* #[darling(default)]: a switch that was not written is false / None.
PayrexAttrs(m) ==
    [timestamp   |-> IF is_some(m["timestamp"]) THEN unwrap(m["timestamp"]) ELSE FALSE,
     metadata    |-> IF is_some(m["metadata"]) THEN unwrap(m["metadata"]) ELSE FALSE,
     amount      |-> IF is_some(m["amount"]) THEN unwrap(m["amount"]) ELSE FALSE,
     livemode    |-> IF is_some(m["livemode"]) THEN unwrap(m["livemode"]) ELSE FALSE,
     description |-> m["description"],
     currency    |-> IF is_some(m["currency"]) THEN unwrap(m["currency"]) ELSE FALSE,
     optional    |-> IF is_some(m["optional"]) THEN unwrap(m["optional"]) ELSE FALSE]

\* impl From<PayrexAttrs> for ParsedPayrexAttrs
ParsedPayrexAttrs(attrs) == [attrs |-> attrs, fields |-> <<>>, optional_struct |-> None]

\* set_fields without the clone of the struct's fields
set_fields_dropping(self, fs) == self

set_fields(self, fs) == [self EXCEPT !.fields = fs]

\* The doc attributes of the canonical fields, one per line of the doc
\* comment (a grave accent of the source is written ' here).
DocCreatedAt == <<" The time the resource was created and measured in seconds since the Unix epoch.">>
DocUpdatedAt == <<" The time the resource was updated and measured in seconds since the Unix epoch.">>
DocMetadata ==
    <<" A set of key-value pairs attached to the Payment. This is useful for storing additional",
      " information about the Payment.">>
DocAmount ==
    <<" The amount of the payment to be transferred to your PayRex merchant account. This is a",
      " positive integer that your customer paid in the smallest currency unit, cents. If the",
      " customer paid ₱ 120.50, the amount of the Payment should be 12050.",
      "",
      " The minimum amount is ₱ 20 (2000 in cents) and the maximum amount is ₱ 59,999,999.99",
      " (5999999999 in cents).">>
DocLivemode ==
    <<" The value is 'true' if the resource's mode is live or the value is 'false' if the resource is",
      " in test mode.">>
DocCurrency == <<" A three-letter ISO currency code in uppercase. As of the moment, we only support PHP.">>

\* add_timestamp pushing updated_at first
add_timestamp_swapped(self) ==
    IF self.attrs.timestamp
    THEN [self EXCEPT !.fields =
            Append(Append(@, Field("updated_at", Timestamp, DocUpdatedAt, FALSE, NoPayrex)),
                   Field("created_at", Timestamp, DocCreatedAt, FALSE, NoPayrex))]
    ELSE self

add_timestamp(self) ==
    IF self.attrs.timestamp
    THEN [self EXCEPT !.fields =
            Append(Append(@, Field("created_at", Timestamp, DocCreatedAt, FALSE, NoPayrex)),
                   Field("updated_at", Timestamp, DocUpdatedAt, FALSE, NoPayrex))]
    ELSE self

add_metadata(self) ==
    IF self.attrs.metadata
    THEN [self EXCEPT !.fields =
            Append(@, Field("metadata", OptionOf(Metadata), DocMetadata, TRUE, NoPayrex))]
    ELSE self

add_amount(self) ==
    IF self.attrs.amount
    THEN [self EXCEPT !.fields = Append(@, Field("amount", U64, DocAmount, FALSE, NoPayrex))]
    ELSE self

add_livemode(self) ==
    IF self.attrs.livemode
    THEN [self EXCEPT !.fields = Append(@, Field("livemode", Bool, DocLivemode, FALSE, NoPayrex))]
    ELSE self

\* the match of add_description with the refund template as its last arm
description_docs_refund(desc) == "An arbitrary string attached to the Refund."

\* the match of add_description: the template of a key, "" for any other
description_docs(desc) ==
    CASE desc = "refund" -> "An arbitrary string attached to the Refund."
      [] desc = "payment" -> "An arbitrary string attached to the Payment. Useful reference when viewing Payment from [PayRex Dashboard](https://dashboard.payrexhq.com)."
      [] desc = "payment_intent" -> "An arbitrary string attached to the Payment Intent. Useful reference when viewing paid payments from the [PayRex Dashboard](https://dashboard.payrexhq.com)."
      [] desc = "webhook" -> "An arbitrary string attached to the Webhook. You can use this to give more information about the Webhook resource."
      [] desc = "checkout_session" -> "An arbitrary string attached to the CheckoutSession. Useful reference when viewing paid Payment from PayRex Dashboard."
      [] desc = "billing_statements" -> "\nAn arbitrary string attached to the billing statement and copied over to its payment intent. This is a useful reference when viewing the payment resources associated with the billing statement from the PayRex Dashboard.\n\nIf the description is not modified, the default value is \"Payment for Billing Statement <billing statement number>\"\n                    "
      [] desc = "billing_statement_line_items" -> "The description attribute describes the line item of the billing statement. It could be a product you sell or a service you provide to your customers."
      [] OTHER -> ""

\* add_description pushing a description of type String
add_description_required(self) ==
    IF is_some(self.attrs.description)
    THEN [self EXCEPT !.fields =
            Append(@, Field("description", StringTy,
                            <<description_docs(unwrap(self.attrs.description))>>, TRUE, NoPayrex))]
    ELSE self

add_description(self) ==
    IF is_some(self.attrs.description)
    THEN [self EXCEPT !.fields =
            Append(@, Field("description", OptionOf(StringTy),
                            <<description_docs(unwrap(self.attrs.description))>>, TRUE, NoPayrex))]
    ELSE self

\* add_currency pushing an optional currency
add_currency_optional(self) ==
    IF self.attrs.currency
    THEN [self EXCEPT !.fields =
            Append(@, Field("currency", OptionOf(Currency), DocCurrency, TRUE, NoPayrex))]
    ELSE self

add_currency(self) ==
    IF self.attrs.currency
    THEN [self EXCEPT !.fields = Append(@, Field("currency", Currency, DocCurrency, FALSE, NoPayrex))]
    ELSE self

is_option(ty) == ty.path /\ ty.seg = "Option"

\* gen_optional_fields wrapping every type, optional or not
gen_optional_field_wrapping(f) == Field(f.ident, OptionOf(f.ty), f.doc, TRUE, NoPayrex)

\* one field of the mirror struct: the doc attributes, the serde attribute,
\* the name and the type made optional
gen_optional_field(f) ==
    Field(f.ident,
          IF is_option(f.ty) THEN f.ty ELSE OptionOf(f.ty),
          f.doc, TRUE, NoPayrex)

gen_optional_fields(self) ==
    [i \in 1..Len(self.fields) |-> gen_optional_field(self.fields[i])]

\* add_optional_struct making the struct's own fields optional in place
add_optional_struct_in_place(self, ident) ==
    IF self.attrs.optional
    THEN [self EXCEPT !.fields = gen_optional_fields(self),
                      !.optional_struct =
                          Some([ident |-> <<"Optional", ident>>, fields |-> gen_optional_fields(self)])]
    ELSE self

add_optional_struct(self, ident) ==
    IF self.attrs.optional
    THEN [self EXCEPT !.optional_struct =
            Some([ident |-> <<"Optional", ident>>, fields |-> gen_optional_fields(self)])]
    ELSE self

\* lib.rs: set_fields and the add_* calls that push fields, in its order
expand_fields(attrs, fs) ==
    add_currency(add_timestamp(add_livemode(add_description(add_metadata(add_amount(
        set_fields(ParsedPayrexAttrs(attrs), fs)))))))

\* expand generating the mirror before the currency field is pushed
expand_mirror_early(attrs, fs, ident) ==
    add_currency(
        add_optional_struct(
            add_timestamp(add_livemode(add_description(add_metadata(add_amount(
                set_fields(ParsedPayrexAttrs(attrs), fs)))))),
            ident))

\* lib.rs: the calls of payrex_attr on the parsed options, in its order
expand(attrs, fs, ident) == add_optional_struct(expand_fields(attrs, fs), ident)

-----------------------------------------------------------------------------
(* The structs handed to the macros.                                        *)
\* Fields as the resource modules write them (customers.rs, webhooks.rs,
\* billing_statement_line_items.rs, refunds.rs), with their doc lines.
F_id ==
    Field("id", CustomerId,
          <<" Unique identifier for the resource. The prefix is 'cus_'.">>, FALSE, NoPayrex)
F_url ==
    Field("url", StringTy,
          <<" The URL where PayRex will send the event that happened from your account. For security",
            " purposes, the URL must be using HTTPS protocol.">>, FALSE, NoPayrex)
F_events ==
    Field("events", VecEventType,
          <<" An array of strings that defines the list of events the webhook will listen to. To learn",
            " about the possible values, please refer to this",
            " [list](https://docs.payrexhq.com/docs/api/events/event_types).">>, FALSE, NoPayrex)
F_email ==
    Field("email", OptionOf(StringTy), <<" The customer's e-mail address.">>, TRUE,
          Described("Sets the email in query params when updating a customer."))
F_unit_price ==
    Field("unit_price", OptionOf(U64),
          <<" The amount of the line item in a single unit.",
            "",
            " This is a positive integer in the smallest currency unit, cents. If the line item should be",
            " ₱ 120.50, the amount should be 12050.">>, TRUE,
          Described("Sets the unit price for a line item in the billing statement."))
F_quantity ==
    Field("quantity", OptionOf(U64),
          <<" The quantity of the line item. The quantity will be multiplied by the line_item.amount to",
            " compute the final amount of the billing statement.">>, TRUE,
          Described("Sets the quantity for a line item in the billing statement."))
F_list_params ==
    Field("list_params", ListParams,
          <<" Baseline pagination fields such as 'limit', 'before', and 'after'.">>, FALSE, NoPayrex)
F_remarks ==
    Field("remarks", OptionOf(StringTy),
          <<" Remarks about the Refund resource. This is useful when viewing a refund via PayRex",
            " Dashboard.">>, TRUE, NoPayrex)
\* Fields an author may write that the crate's own structs do not have: a
\* description on a field that is no Option, an empty description, a
\* #[payrex(...)] that cannot be read, a field of a tuple type.
F_name_described ==
    Field("name", StringTy, <<" The customer's name.">>, FALSE,
          Described("Sets the name in query params when updating a customer."))
F_note_empty == Field("note", OptionOf(StringTy), <<>>, TRUE, Described(""))
F_tag_unreadable == Field("tag", OptionOf(StringTy), <<>>, TRUE, Unreadable)
F_pair == Field("pair", TupleTy, <<>>, FALSE, NoPayrex)
\* an Option field the author names amount and describes
F_amount_described ==
    Field("amount", OptionOf(U64), <<" The amount to refund.">>, TRUE,
          Described("Sets the amount to refund, in cents."))

\* The sequences over S of length at most n that name no field twice.
FieldLists(S, n) ==
    UNION {{q \in [1..k -> S] : \A i, j \in 1..k : i # j => q[i].ident # q[j].ident} : k \in 0..n}

NamedStruct(fs) == [shape |-> "named", ident |-> "Customer", fields |-> fs]
\* a tuple struct or a unit struct: Fields::Unnamed, Fields::Unit
TupleStruct == [shape |-> "tuple", ident |-> "Customer", fields |-> <<>>]
UnitStruct == [shape |-> "unit", ident |-> "Customer", fields |-> <<>>]
NoStruct == [shape |-> "none", ident |-> "", fields |-> <<>>]

AttrFields == {F_id, F_email, F_unit_price, F_pair}
AttrItems ==
    {NamedStruct(fs) : fs \in FieldLists(AttrFields, MaxFields)}
        \cup {NamedStruct(<<F_unit_price, F_quantity>>), TupleStruct, UnitStruct}

-----------------------------------------------------------------------------
(* lib.rs: payrex_attr.                                                     *)
Init ==
    /\ pc = "attr"
    /\ metas = NoMetas
    /\ item = NoStruct
    /\ fields = <<>>
    /\ mirror = None
    /\ impl = None
    /\ value = None
    /\ last = None

\* PayrexAttrs::from_list reads one boolean switch of the annotation.
ReadSwitch(name, form) ==
    /\ pc = "attr"
    /\ name \in BoolSwitches
    /\ metas[name] = None
    /\ metas' = [metas EXCEPT ![name] = Some(bool_from_meta(form))]
    /\ UNCHANGED <<pc, item, fields, mirror, impl, value, last>>

\* PayrexAttrs::from_list reads description = "key".
ReadDescription(key) ==
    /\ pc = "attr"
    /\ metas["description"] = None
    /\ metas' = [metas EXCEPT !["description"] = Some(key)]
    /\ UNCHANGED <<pc, item, fields, mirror, impl, value, last>>

\* PayrexAttrs::from_list fails (a switch written twice, or a name it does
\* not know): payrex_attr returns the errors and nothing else.
ReadError(name) ==
    /\ pc = "attr"
    /\ IF name \in Switches THEN metas[name] # None ELSE TRUE
    /\ pc' = "attr_error"
    /\ UNCHANGED <<metas, item, fields, mirror, impl, value, last>>

\* The rest of payrex_attr on the struct `it`: a struct without named fields
\* is refused, any other has its field list replaced by the expanded one.
Expand(it) ==
    /\ pc = "attr"
    /\ item' = it
    /\ IF it.shape # "named"
       THEN /\ pc' = "attr_error"
            /\ UNCHANGED <<fields, mirror>>
       ELSE LET opts == expand(PayrexAttrs(metas), it.fields, it.ident)
            IN /\ pc' = "expanded"
               /\ fields' = opts.fields
               /\ mirror' = opts.optional_struct
    /\ UNCHANGED <<metas, impl, value, last>>

Next ==
    \/ \E name \in BoolSwitches, form \in BoolForms : ReadSwitch(name, form)
    \/ \E key \in DescriptionKeys \cup UnknownKeys : ReadDescription(key)
    \/ \E name \in Switches \cup {"timestamps"} : ReadError(name)
    \/ \E it \in AttrItems : Expand(it)

Spec == Init /\ [][Next]_vars

-----------------------------------------------------------------------------
(* derive.rs: the derive macro Payrex.                                      *)
CanonicalSetterNames == {"metadata", "description", "currency", "amount"}

MAP_DESCRIPTION(name) ==
    CASE name = "metadata" -> "Sets metadata in the query parameters."
      [] name = "description" -> "Sets the description in the query parameters."
      [] name = "currency" -> "Sets the currency in the query parameters."
      [] name = "amount" -> "Sets the amount in the query parameters."

\* PayrexFieldReceiver::from_field: Err for a #[payrex(...)] it cannot read,
\* else the receiver with the description written on the field, if any.
from_field(field) ==
    IF field.payrex.kind = "bad" THEN [ok |-> FALSE, description |-> None]
    ELSE [ok |-> TRUE,
          description |-> IF field.payrex.kind = "desc"
                          THEN Some(field.payrex.description) ELSE None]

\* the receiver's description after the match on the field's name
receiver_description(field) ==
    IF field.ident \in CanonicalSetterNames /\ is_type(field.ty, "Option")
    THEN Some(MAP_DESCRIPTION(field.ident))
    ELSE from_field(field).description

\* route asking for a description that is not empty
route_nonempty(field) ==
    IF ~from_field(field).ok THEN "unread"
    ELSE IF is_some(receiver_description(field)) /\ unwrap(receiver_description(field)) # ""
         THEN "setter"
    ELSE IF ~is_type(field.ty, "ListParams") THEN "required"
    ELSE "excluded"

\* route without the exception for the pagination type
route_no_pagination(field) ==
    IF ~from_field(field).ok THEN "unread"
    ELSE IF is_some(receiver_description(field)) THEN "setter"
    ELSE "required"

\* The branch derive_handler takes for one field.
route(field) ==
    IF ~from_field(field).ok THEN "unread"
    ELSE IF is_some(receiver_description(field)) THEN "setter"
    ELSE IF ~is_type(field.ty, "ListParams") THEN "required"
    ELSE "excluded"

\* gen_optional_function testing the field's type, not the inner type
gen_optional_function_outer(field, docs) ==
    LET inner == get_option_inner(field.ty)
    IN IF ~is_some(inner) THEN [panicked |-> TRUE, fn |-> None]
       ELSE [panicked |-> FALSE,
             fn |-> Some([ident |-> field.ident,
                          param |-> unwrap(inner),
                          into |-> is_type_deep(field.ty, "String"),
                          docs |-> docs])]

\* gen_optional_function: the setter of a field; get_option_inner(ty).unwrap()
\* panics when the type is no Option<T>.
gen_optional_function(field, docs) ==
    LET inner == get_option_inner(field.ty)
    IN IF ~is_some(inner) THEN [panicked |-> TRUE, fn |-> None]
       ELSE [panicked |-> FALSE,
             fn |-> Some([ident |-> field.ident,
                          param |-> unwrap(inner),
                          into |-> is_type_deep(unwrap(inner), "String"),
                          docs |-> docs])]

\* gen_required_functions: new(), or new(args) with one argument per field
gen_required_functions(ident, required_fields) ==
    [docs |-> <<"Creates a new [", ident, "] instance.">>,
     args |-> [i \in 1..Len(required_fields) |->
                 [ident |-> required_fields[i].ident,
                  param |-> required_fields[i].ty,
                  into |-> is_type(required_fields[i].ty, "String")]],
     body |-> IF Len(required_fields) = 0 THEN "default" ELSE "struct_update"]

\* the loop of derive_handler over fields.named, from field i on
RECURSIVE derive_loop(_, _, _)
derive_loop(fs, i, acc) ==
    IF i > Len(fs) \/ acc.panicked THEN acc
    ELSE LET field == fs[i]
             r == route(field)
         IN CASE r = "setter" ->
                   LET g == gen_optional_function(field, receiver_description(field))
                   IN derive_loop(fs, i + 1,
                        IF g.panicked THEN [acc EXCEPT !.panicked = TRUE]
                        ELSE [acc EXCEPT !.optional_functions = Append(@, unwrap(g.fn))])
              [] r = "required" ->
                   derive_loop(fs, i + 1, [acc EXCEPT !.required_fields = Append(@, field)])
              [] OTHER -> derive_loop(fs, i + 1, acc)

derive_handler(input) ==
    IF input.shape = "named"
    THEN LET acc == derive_loop(input.fields, 1,
                        [optional_functions |-> <<>>, required_fields |-> <<>>,
                         panicked |-> FALSE])
         IN IF acc.panicked THEN [result |-> "panic", tokens |-> None]
            ELSE [result |-> "impl",
                  tokens |-> Some([new_fn |-> gen_required_functions(input.ident, acc.required_fields),
                                   optional_functions |-> acc.optional_functions])]
    ELSE [result |-> "empty", tokens |-> None]

-----------------------------------------------------------------------------
(* Values at run time: a plain value of a type, or an Option of one.        *)
Plain(t, s) == [k |-> "plain", t |-> t, s |-> s]
NoneV == [k |-> "none", t |-> "", s |-> ""]
SomeV(x) == [k |-> "some", t |-> x.t, s |-> x.s]

\* Default::default() of a field's type
DefaultOf(ty) == IF is_option(ty) THEN NoneV ELSE Plain(ty.seg, "default")

\* x.into() for a target type: an owned value of that type, same content
into(x, ty) == Plain(ty.seg, x.s)

BaseValues(ty) == {Plain(ty.seg, "a"), Plain(ty.seg, "b")}
\* what a caller can pass for impl Into<String>: a &str or a String
IntoStringValues == {Plain("&str", "a"), Plain("String", "b")}

\* the values a caller can pass for a parameter of the generated methods
ArgValues(p) ==
    IF p.into THEN IntoStringValues
    ELSE IF is_some(get_option_inner(p.param))
         THEN {NoneV} \cup {SomeV(x) : x \in BaseValues(unwrap(get_option_inner(p.param)))}
         ELSE BaseValues(p.param)

RECURSIVE ArgLists(_)
ArgLists(params) ==
    IF params = <<>> THEN {<<>>}
    ELSE {<<a>> \o rest : a \in ArgValues(Head(params)), rest \in ArgLists(Tail(params))}

Idents(fs) == {fs[i].ident : i \in 1..Len(fs)}
FieldNamed(fs, name) == fs[CHOOSE i \in 1..Len(fs) : fs[i].ident = name]
ArgIndex(params, name) == CHOOSE i \in 1..Len(params) : params[i].ident = name

\* new returning Self::default() whatever its arguments
new_default_only(new_fn, fs, args) ==
    [name \in Idents(fs) |-> DefaultOf(FieldNamed(fs, name).ty)]

\* the body of the generated new: Self::default(), or the arguments (a String
\* argument through .into()) with ..Default::default() for the other fields
new(new_fn, fs, args) ==
    [name \in Idents(fs) |->
        IF new_fn.body = "default" \/ name \notin Idents(new_fn.args)
        THEN DefaultOf(FieldNamed(fs, name).ty)
        ELSE LET i == ArgIndex(new_fn.args, name)
             IN IF new_fn.args[i].into THEN into(args[i], new_fn.args[i].param)
                ELSE args[i]]

\* a setter that builds its result from the default value
setter_resetting(fn, self, arg) ==
    [name \in DOMAIN self |->
        IF name = fn.ident THEN SomeV(IF fn.into THEN into(arg, fn.param) ELSE arg)
        ELSE IF self[name].k = "some" THEN NoneV
        ELSE self[name]]

\* the body of a generated setter: self.f = Some(f) or Some(f.into())
setter(fn, self, arg) ==
    [self EXCEPT ![fn.ident] = SomeV(IF fn.into THEN into(arg, fn.param) ELSE arg)]

-----------------------------------------------------------------------------
(* The derive on a struct, and the generated methods on a value.            *)
AuthorFields ==
    {F_id, F_url, F_events, F_email, F_unit_price, F_list_params, F_remarks,
     F_name_described, F_note_empty, F_tag_unreadable, F_pair}

\* CreateCustomer, UpdateCustomer (customers.rs) and CheckoutSessionLineItem
\* (checkout_sessions.rs) as written, each with its own annotation.
CheckoutSessionLineItemId == Ty("CheckoutSessionLineItemId")
DocBillingStatementPrefix ==
    <<" The customer's prefix used to generate unique billing statement numbers. Allows 3-15",
      " uppercase letters or numbers.",
      "",
      " To learn more about billing statements, you can check this",
      " [guide](https://docs.payrexhq.com/docs/guide/finance_automation/billing_statements/overview).">>
DocSequenceNumber ==
    <<" The sequence number used as a suffix when creating the customer's next billing statement",
      " number. Defaults to 1.">>

Struct(ident, fs) == [shape |-> "named", ident |-> ident, fields |-> fs]

CreateCustomer ==
    Struct("CreateCustomer",
        <<Field("email", StringTy, <<" The customer's e-mail address.">>, FALSE, NoPayrex),
          Field("name", StringTy, <<" The customer's name.">>, FALSE, NoPayrex),
          Field("billing_statement_prefix", OptionOf(StringTy), DocBillingStatementPrefix, TRUE,
                Described("Sets the billing statement prefix in the query params when creating a customer.")),
          Field("next_billing_statement_sequence_number", OptionOf(StringTy), DocSequenceNumber, TRUE,
                Described("Sets the next billing statement sequence number in the query params when creating a customer."))>>)

UpdateCustomer ==
    Struct("UpdateCustomer",
        <<Field("billing_statement_prefix", OptionOf(StringTy), DocBillingStatementPrefix, TRUE,
                Described("Sets the billing statement prefix in the query params when updating a customer.")),
          Field("next_billing_statement_sequence_number", OptionOf(StringTy), DocSequenceNumber, TRUE,
                Described("Sets the next billing statement sequence number in the query params when updating a customer.")),
          F_email,
          Field("name", OptionOf(StringTy), <<" The customer's name.">>, TRUE,
                Described("Sets the name in query params when updating a customer."))>>)

CheckoutSessionLineItem ==
    Struct("CheckoutSessionLineItem",
        <<Field("id", OptionOf(CheckoutSessionLineItemId),
                <<" Unique identifier for the resource. The prefix is 'cs_li'.">>, TRUE,
                Described("Sets the checkout session line item ID.")),
          Field("name", StringTy,
                <<" The name of the line item. The name attribute describes the line item. It could be a",
                  " product name or the service that you offer.">>, FALSE, NoPayrex),
          Field("quantity", U64,
                <<" The quantity of the line item. The quantity will be multiplied by the 'line_item.amount' to",
                  " compute the final amount of the CheckoutSession.">>, FALSE, NoPayrex),
          Field("image", OptionOf(StringTy),
                <<" The image of the line_item. This should be a publicly accessible URL. If this is not",
                  " provided, PayRex will provide a default image.">>, TRUE,
                Described("Sets the public image URL of the line item."))>>)

\* UpdateBillingStatement (billing_statements.rs) as written: due_at is the
\* one Option field without skip_serializing_if
UpdateBillingStatement ==
    Struct("UpdateBillingStatement",
        <<Field("customer_id", OptionOf(CustomerId),
                <<" The ID of a customer resource. To learn more about the customer resource, you can refer",
                  " [here](https://docs.payrexhq.com/docs/api/customers).">>, TRUE,
                Described("Sets the customer ID before updating a billing statement.")),
          Field("payment_settings", OptionOf(Ty("PaymentSettings")),
                <<" Set of key-value pairs that can modify the behavior of the payment processing for the",
                  " billing statement.">>, TRUE,
                Described("Sets the payment settings before updating a billing statement.")),
          Field("billing_details_collection", OptionOf(StringTy),
                <<" Defines if the billing information fields will always show or managed by PayRex.">>, TRUE,
                Described("Sets the billing details collection before updating a billing statement.")),
          Field("due_at", OptionOf(Timestamp),
                <<" The time when the billing statement is expected to be paid. If the due_at is already past, your customer can still pay the billing statement if the status is open.",
                  "",
                  " Measured in seconds since the Unix epoch.">>, FALSE,
                Described("Sets the deadline for the billing statement at a specified date."))>>)

\* #[payrex_attr(metadata, currency = false)]
CreateCustomerMetas ==
    [NoMetas EXCEPT !["metadata"] = Some(bool_from_meta("word")),
                    !["currency"] = Some(bool_from_meta("false"))]
\* #[payrex_attr(metadata, currency = true)]
UpdateCustomerMetas ==
    [NoMetas EXCEPT !["metadata"] = Some(bool_from_meta("word")),
                    !["currency"] = Some(bool_from_meta("true"))]
\* #[payrex_attr(amount = false, description = "checkout_session")]
CheckoutSessionLineItemMetas ==
    [NoMetas EXCEPT !["amount"] = Some(bool_from_meta("false")),
                    !["description"] = Some("checkout_session")]

ResourceStructs ==
    {[metas |-> CreateCustomerMetas, item |-> CreateCustomer],
     [metas |-> UpdateCustomerMetas, item |-> UpdateCustomer],
     [metas |-> CheckoutSessionLineItemMetas, item |-> CheckoutSessionLineItem],
     \* #[payrex_attr(metadata, description = "billing_statements")]
     [metas |-> [NoMetas EXCEPT !["metadata"] = Some(bool_from_meta("word")),
                                !["description"] = Some("billing_statements")],
      item |-> UpdateBillingStatement]}

\* annotations of the structs that also derive Payrex
DeriveAnnotations ==
    {NoMetas,
     [NoMetas EXCEPT !["description"] = Some("webhook")],
     [NoMetas EXCEPT !["metadata"] = Some(TRUE), !["amount"] = Some(TRUE),
                     !["currency"] = Some(TRUE)]}

DeriveItems ==
    {NamedStruct(fs) : fs \in FieldLists(AuthorFields, MaxFields)}
        \cup {NamedStruct(<<F_unit_price, F_quantity>>), TupleStruct}

\* a struct without annotation whose author wrote the amount field
AuthorStructs == {[metas |-> NoMetas, item |-> NamedStruct(<<F_id, F_amount_described>>)]}

\* the annotated structs handed to the derive
DeriveInputs ==
    {[metas |-> m, item |-> it] : m \in DeriveAnnotations, it \in DeriveItems}
        \cup ResourceStructs \cup AuthorStructs

InitDerive ==
    /\ pc = "struct"
    /\ \E input \in DeriveInputs :
          /\ metas = input.metas
          /\ item = input.item
          /\ fields = IF input.item.shape = "named"
                      THEN expand(PayrexAttrs(input.metas), input.item.fields, input.item.ident).fields
                      ELSE <<>>
    /\ mirror = None
    /\ impl = None
    /\ value = None
    /\ last = None

\* derive_handler on the struct with its expanded field list
Derive ==
    /\ pc = "struct"
    /\ LET out == derive_handler([item EXCEPT !.fields = fields])
       IN /\ pc' = CASE out.result = "impl" -> "derived"
                     [] out.result = "panic" -> "derive_panic"
                     [] OTHER -> "derive_empty"
          /\ impl' = out.tokens
    /\ UNCHANGED <<metas, item, fields, mirror, value, last>>

\* a caller builds a value with the generated new
New(args) ==
    /\ pc = "derived"
    /\ value = None
    /\ value' = Some(new(unwrap(impl).new_fn, fields, args))
    /\ last' = Some([op |-> "new", ident |-> "new", args |-> args])
    /\ UNCHANGED <<pc, metas, item, fields, mirror, impl>>

\* a caller calls the generated setter fn with arg on the value
CallSetter(fn, arg) ==
    /\ pc = "derived"
    /\ value # None
    /\ value' = Some(setter(fn, unwrap(value), arg))
    /\ last' = Some([op |-> "set", ident |-> fn.ident, args |-> <<arg>>])
    /\ UNCHANGED <<pc, metas, item, fields, mirror, impl>>

\* a caller assigns a pagination value to a public field of type ListParams
\* (params.list_params = ListParams::new()..)
Assign(name, v) ==
    /\ pc = "derived"
    /\ value # None
    /\ \E i \in 1..Len(fields) : fields[i].ident = name /\ fields[i].ty = ListParams
    /\ value' = Some([unwrap(value) EXCEPT ![name] = v])
    /\ last' = Some([op |-> "assign", ident |-> name, args |-> <<v>>])
    /\ UNCHANGED <<pc, metas, item, fields, mirror, impl>>

\* the derived Serialize of a request struct: the fields in order, each
\* under its name, one marked skip_serializing_if = "Option::is_none" left
\* out when it is None
RECURSIVE to_value(_, _)
to_value(fs, self) ==
    IF fs = <<>> THEN <<>>
    ELSE LET f == Head(fs)
         IN (IF f.skip /\ self[f.ident] = NoneV THEN <<>>
             ELSE <<[key |-> f.ident, value |-> self[f.ident]]>>)
                \o to_value(Tail(fs), self)

\* to_value writing every field
to_value_all(fs, self) == [i \in 1..Len(fs) |-> [key |-> fs[i].ident, value |-> self[fs[i].ident]]]

\* a caller serializes the value (serde_json::to_value(&params)); a struct
\* with a flattened pagination field is left to the pagination model
ToJson ==
    /\ pc = "derived"
    /\ value # None
    /\ \A i \in 1..Len(fields) : fields[i].ty # ListParams
    /\ last' = Some([op |-> "to_value", ident |-> "", args |-> <<>>,
                     out |-> to_value(fields, unwrap(value))])
    /\ UNCHANGED <<pc, metas, item, fields, mirror, impl, value>>

Setters == IF impl = None THEN {} ELSE {unwrap(impl).optional_functions[i] :
                                            i \in 1..Len(unwrap(impl).optional_functions)}

\* the argument lists a caller can pass to the generated new
NewArgLists ==
    IF pc = "derived" /\ value = None THEN ArgLists(unwrap(impl).new_fn.args) ELSE {}

NextDerive ==
    \/ Derive
    \/ \E args \in NewArgLists : New(args)
    \/ \E fn \in Setters : \E arg \in ArgValues(fn) : CallSetter(fn, arg)
    \/ \E name \in Idents(fields), v \in BaseValues(ListParams) : Assign(name, v)
    \/ ToJson

SpecDerive == InitDerive /\ [][NextDerive]_vars

-----------------------------------------------------------------------------
(* Properties of the expansion by payrex_attr.                              *)
CanonicalOrder ==
    <<"amount", "metadata", "description", "livemode", "created_at", "updated_at", "currency">>

\* the switch that appends a canonical field
SwitchOf(name) == IF name \in {"created_at", "updated_at"} THEN "timestamp" ELSE name

\* a switch is set when the annotation writes it with a value other than false
SwitchSet(name) ==
    IF name = "description" THEN metas[name] # None ELSE metas[name] = Some(TRUE)

IdentsOf(fs) == [i \in 1..Len(fs) |-> fs[i].ident]

\* the fields of the expanded struct after the author's own
Appended == SubSeq(fields, Len(item.fields) + 1, Len(fields))

IsCanonicalSet(name) == SwitchSet(SwitchOf(name))

C2_OriginalFieldsKept ==
    pc = "expanded" =>
        /\ Len(fields) >= Len(item.fields)
        /\ SubSeq(fields, 1, Len(item.fields)) = item.fields
        /\ \A i \in 1..Len(Appended) :
              \E j \in 1..Len(CanonicalOrder) : Appended[i].ident = CanonicalOrder[j]

\* UpdateBillingStatementLineItem: unit_price, quantity, then description
C2_Witness ==
    /\ pc = "expanded"
    /\ item.fields = <<F_unit_price, F_quantity>>
    /\ IdentsOf(fields) = <<"unit_price", "quantity", "description">>

\* C10: every field of the mirror struct has an Option type with one level
\* of wrapping added where the expanded field had none, and carries the
\* skip_serializing_if attribute.
C10_MirrorTypes ==
    (pc = "expanded" /\ mirror # None) =>
        /\ Len(unwrap(mirror).fields) = Len(fields)
        /\ \A i \in 1..Len(fields) :
              LET m == unwrap(mirror).fields[i]
                  f == fields[i]
              IN /\ m.skip
                 /\ m.ty.path /\ m.ty.seg = "Option" /\ Len(m.ty.args) = 1
                 /\ IF f.ty.path /\ f.ty.seg = "Option"
                    THEN m.ty = f.ty
                    ELSE m.ty.args[1] = f.ty

\* {id: CustomerId, email: Option<String>} mirrors to
\* {id: Option<CustomerId>, email: Option<String>}
C10_Witness ==
    /\ pc = "expanded"
    /\ mirror # None
    /\ fields = <<F_id, F_email>>
    /\ unwrap(mirror).fields[1].ty = OptionOf(CustomerId)
    /\ unwrap(mirror).fields[2].ty = OptionOf(StringTy)
    /\ unwrap(mirror).fields[1].skip /\ unwrap(mirror).fields[2].skip

\* C11: when the optional switch is set, the struct Optional<Name> is emitted
\* with one field per field of the expanded struct, author-written and
\* appended alike, under the same names in the same order; when the switch is
\* not set, no mirror struct is emitted.
C11_MirrorFieldSet ==
    pc = "expanded" =>
        IF SwitchSet("optional")
        THEN /\ mirror # None
             /\ unwrap(mirror).ident = <<"Optional", item.ident>>
             /\ IdentsOf(unwrap(mirror).fields) = IdentsOf(fields)
        ELSE mirror = None

\* every switch set on a struct of two fields: nine fields on both sides
C11_Witness ==
    /\ pc = "expanded"
    /\ \A s \in Switches : SwitchSet(s)
    /\ Len(item.fields) = 2
    /\ mirror # None
    /\ Len(unwrap(mirror).fields) = 9
    /\ unwrap(mirror).fields[9].ident = "currency"

\* the type each required canonical field is appended with
RequiredCanonicalTy(name) ==
    CASE name = "amount" -> U64
      [] name = "livemode" -> Bool
      [] name = "created_at" -> Timestamp
      [] name = "updated_at" -> Timestamp
      [] name = "currency" -> Currency

DescriptionIndex ==
    CHOOSE i \in (Len(item.fields) + 1)..Len(fields) : fields[i].ident = "description"

\* the expansion of the same struct under the same switches with a
\* recognized description key
UnderRecognizedKey ==
    expand([PayrexAttrs(metas) EXCEPT !.description = Some("webhook")], item.fields, item.ident)

\* C15: a description key that is none of the seven is no error: the
\* expansion of a struct with named fields never fails, the field
\* description: Option<String> is appended with the empty documentation
\* string, and the expanded struct and the mirror are those of a recognized
\* key but for that documentation string.
C15_UnknownDescriptionKey ==
    /\ pc = "attr_error" => item.shape # "named"
    /\ (/\ pc = "expanded"
        /\ metas["description"] # None
        /\ unwrap(metas["description"]) \notin DescriptionKeys) =>
           LET rec == UnderRecognizedKey
               i == DescriptionIndex
           IN /\ \E j \in (Len(item.fields) + 1)..Len(fields) : fields[j].ident = "description"
              /\ fields[i].ty = OptionOf(StringTy)
              /\ fields[i].doc = <<"">>
              /\ fields[i].skip
              /\ fields = [rec.fields EXCEPT ![i].doc = <<"">>]
              /\ IF rec.optional_struct = None THEN mirror = None
                 ELSE /\ mirror # None
                      /\ unwrap(mirror).ident = unwrap(rec.optional_struct).ident
                      /\ unwrap(mirror).fields =
                            [unwrap(rec.optional_struct).fields EXCEPT ![i].doc = <<"">>]

\* description = "webhooks" with amount and optional set
C15_Witness ==
    /\ pc = "expanded"
    /\ metas["description"] = Some("webhooks")
    /\ SwitchSet("amount") /\ SwitchSet("optional")
    /\ item.fields = <<F_id>>
    /\ IdentsOf(fields) = <<"id", "amount", "description">>
    /\ fields[3].doc = <<"">>
    /\ mirror # None

\* the options as they are when add_optional_struct is called, and after it
BeforeMirror == expand_fields(PayrexAttrs(metas), item.fields)
AfterMirror == add_optional_struct(BeforeMirror, item.ident)

\* pushes made on the options after the mirror was generated
LaterPushes(self) ==
    {add_livemode([self EXCEPT !.attrs.livemode = TRUE]),
     add_metadata([self EXCEPT !.attrs.metadata = TRUE]),
     add_timestamp([self EXCEPT !.attrs.timestamp = TRUE])}

-----------------------------------------------------------------------------
(* Properties of the derive and of the methods it generates.                *)
NewFn == unwrap(impl).new_fn
FieldSet == {fields[i] : i \in 1..Len(fields)}

\* the three classes of a field of a struct the derive has finished
IsCtorParam(f) == \E i \in 1..Len(NewFn.args) : NewFn.args[i].ident = f.ident
HasSetter(f) == \E fn \in Setters : fn.ident = f.ident
IsPaginationExcluded(f) == f.ty = ListParams
ClassesOf(f) ==
    {c \in {"ctor", "setter", "pagination"} :
        \/ c = "ctor" /\ IsCtorParam(f)
        \/ c = "setter" /\ HasSetter(f)
        \/ c = "pagination" /\ IsPaginationExcluded(f)}

\* what the author wrote on the field, or what its name attaches to it
IsReadable(f) == f.payrex.kind # "bad"
AttachedByName(f) ==
    f.ident \in CanonicalSetterNames /\ f.ty.path /\ f.ty.seg = "Option"
CarriesDescription(f) == IsReadable(f) /\ (f.payrex.kind = "desc" \/ AttachedByName(f))
CarriesNonEmptyDescription(f) ==
    IsReadable(f) /\ ((f.payrex.kind = "desc" /\ f.payrex.description # "") \/ AttachedByName(f))
IsOptionOfOne(ty) == ty.path /\ ~ty.qself /\ ty.seg = "Option" /\ Len(ty.args) = 1

\* C3: every field of a struct with named fields is in exactly one of the
\* classes constructor parameter, setter-generated, pagination-excluded.
C3_Partition ==
    pc = "derived" => \A f \in FieldSet : Cardinality(ClassesOf(f)) = 1

C5_CtorParamsRequired ==
    pc = "derived" =>
        \A f \in FieldSet :
            IsCtorParam(f) =>
                /\ ~CarriesDescription(f)
                /\ ~(f.ty.path /\ f.ty.seg = "Option")
                /\ f.ty # ListParams

\* C6: the derive never calls gen_optional_function on a field whose type is
\* not Option<T>, so get_option_inner(ty).unwrap() never fails.
C6_SettersOnlyOnOptions ==
    /\ pc # "derive_panic"
    /\ pc = "derived" => \A f \in FieldSet : HasSetter(f) => IsOptionOfOne(f.ty)

\* the owned String with the content of an argument
OwnedString(arg) == Plain("String", arg.s)

\* C16: a struct without named fields is refused by both stages with a
\* diagnostic: once a stage has run on it the pipeline is in an error state,
\* no field was appended and no impl block, empty or not, was emitted.
C16_NoNamedFieldsRejected ==
    (item.shape \in {"tuple", "unit"} /\ pc \notin {"attr", "struct"}) =>
        /\ pc \in {"attr_error", "derive_error"}
        /\ fields = <<>>
        /\ impl = None

\* C14: under currency = false the expansion appends a required currency
\* field and it is the last argument of the generated constructor; under
\* currency = true it appends an optional currency field that has a setter
\* currency(...) and is no argument of the constructor.
C14_CurrencySwitch ==
    pc = "derived" =>
        /\ metas["currency"] = Some(FALSE) =>
              /\ Len(fields) > Len(item.fields)
              /\ fields[Len(fields)].ident = "currency"
              /\ fields[Len(fields)].ty = Currency
              /\ Len(NewFn.args) > 0
              /\ NewFn.args[Len(NewFn.args)].ident = "currency"
        /\ metas["currency"] = Some(TRUE) =>
              /\ Len(fields) > Len(item.fields)
              /\ fields[Len(fields)].ident = "currency"
              /\ fields[Len(fields)].ty = OptionOf(Currency)
              /\ \E fn \in Setters : fn.ident = "currency"
              /\ \A i \in 1..Len(NewFn.args) : NewFn.args[i].ident # "currency"

IsCtorParamName(name) == \E i \in 1..Len(NewFn.args) : NewFn.args[i].ident = name

\* C17: the parameters of the generated constructor are in the declaration
\* order of the expanded struct, the author's required fields and then the
\* appended required canonical fields; CheckoutSessionLineItem, annotated
\* amount = false, gets new(name, quantity, amount).
C17_ConstructorOrder ==
    pc = "derived" =>
        /\ IdentsOf(NewFn.args) = SelectSeq(IdentsOf(fields), IsCtorParamName)
        /\ (item = CheckoutSessionLineItem /\ metas = CheckoutSessionLineItemMetas) =>
              IdentsOf(NewFn.args) = <<"name", "quantity", "amount">>

\* what a generated method stores for an argument of a parameter
Stored(p, arg) == IF p.into THEN OwnedString(arg) ELSE arg

\* C18: right after the generated constructor returns, the field of every
\* constructor parameter holds the argument passed for it (as an owned String
\* where the parameter is relaxed) and every other field holds the default of
\* its type; a field with a setter is absent.
C18_ConstructedValue ==
    (pc = "derived" /\ last # None /\ unwrap(last).op = "new") =>
        /\ \A i \in 1..Len(NewFn.args) :
              unwrap(value)[NewFn.args[i].ident] = Stored(NewFn.args[i], unwrap(last).args[i])
        /\ \A f \in FieldSet :
              ~IsCtorParam(f) =>
                  /\ unwrap(value)[f.ident] =
                        IF f.ty.path /\ f.ty.seg = "Option" THEN NoneV
                        ELSE Plain(f.ty.seg, "default")
                  /\ HasSetter(f) => unwrap(value)[f.ident] = NoneV

\* CheckoutSessionLineItem::new("a", b): name and quantity hold the
\* arguments, id, image and description are absent
C18_Witness ==
    /\ pc = "derived"
    /\ item = CheckoutSessionLineItem
    /\ last = Some([op |-> "new", ident |-> "new",
                    args |-> <<Plain("&str", "a"), Plain("u64", "b")>>])
    /\ unwrap(value)["name"] = Plain("String", "a")
    /\ unwrap(value)["quantity"] = Plain("u64", "b")
    /\ unwrap(value)["id"] = NoneV
    /\ unwrap(value)["image"] = NoneV
    /\ unwrap(value)["description"] = NoneV

SetterNamed(name) == CHOOSE fn \in Setters : fn.ident = name

\* C19: a call f(v) of a generated setter returns a value whose field f is
\* present and holds v (as an owned String where the parameter is relaxed)
\* and whose every other field is what it was before the call.
C19_SetterFrame ==
    [][(/\ pc = "derived"
        /\ value # None
        /\ last' # None
        /\ unwrap(last').op = "set"
        /\ <<value, last>>' # <<value, last>>) =>
            LET fn == SetterNamed(unwrap(last').ident)
                before == unwrap(value)
                after == unwrap(value')
            IN /\ DOMAIN after = DOMAIN before
               /\ after[fn.ident] = SomeV(Stored(fn, unwrap(last').args[1]))
               /\ \A name \in DOMAIN before \ {fn.ident} : after[name] = before[name]]_vars

\* image("b") on a line item built by new("a", ..) and given an id: name and
\* id are kept
C19_Witness ==
    /\ pc = "derived"
    /\ item = CheckoutSessionLineItem
    /\ last = Some([op |-> "set", ident |-> "image", args |-> <<Plain("String", "b")>>])
    /\ unwrap(value)["image"] = SomeV(Plain("String", "b"))
    /\ unwrap(value)["name"] = Plain("String", "a")
    /\ unwrap(value)["id"] # NoneV
    /\ unwrap(value)["description"] = NoneV

\* C20: the documentation of every generated setter is the description
\* attached to its field: the one the author wrote on the field if there is
\* one, else the one attached to the canonical field by its name.
C20_SetterDocsVerbatim ==
    pc = "derived" =>
        \A fn \in Setters :
            LET f == FieldNamed(fields, fn.ident)
            IN fn.docs = Some(IF f.payrex.kind = "desc" THEN f.payrex.description
                              ELSE MAP_DESCRIPTION(f.ident))

IsCreateWebhook ==
    /\ item = NamedStruct(<<F_url, F_events>>)
    /\ metas = [NoMetas EXCEPT !["description"] = Some("webhook")]

\* C9: CreateWebhook gets description: Option<String> with the webhook
\* template as its documentation, the constructor new(url, events), the one
\* setter description(impl Into<String>), and no description after new.
C9_CreateWebhook ==
    IsCreateWebhook =>
        /\ Len(fields) = 3
        /\ fields[3].ident = "description"
        /\ fields[3].ty = OptionOf(StringTy)
        /\ fields[3].doc = <<"An arbitrary string attached to the Webhook. You can use this to give more information about the Webhook resource.">>
        /\ pc # "derive_panic" /\ pc # "derive_empty"
        /\ pc = "derived" =>
              /\ IdentsOf(NewFn.args) = <<"url", "events">>
              /\ Len(unwrap(impl).optional_functions) = 1
              /\ unwrap(impl).optional_functions[1].ident = "description"
              /\ unwrap(impl).optional_functions[1].into
              /\ unwrap(impl).optional_functions[1].param = StringTy
              /\ (last # None /\ unwrap(last).op = "new") =>
                    unwrap(value)["description"] = NoneV

C9_Witness ==
    /\ IsCreateWebhook
    /\ pc = "derived"
    /\ last # None /\ unwrap(last).op = "new"
    /\ unwrap(value)["url"] = Plain("String", "a")
    /\ unwrap(value)["description"] = NoneV

\* C21: a field of type ListParams without a description is no parameter of
\* the constructor and has no setter; the constructor leaves it at its
\* default, and afterwards only an assignment to the field changes it.
C21_PaginationExcluded ==
    [][(pc = "derived" /\ value' # None) =>
          \A f \in FieldSet :
              (f.ty = ListParams /\ f.payrex.kind = "none") =>
                  /\ ~IsCtorParam(f)
                  /\ ~HasSetter(f)
                  /\ IF value = None
                     THEN unwrap(value')[f.ident] = Plain("ListParams", "default")
                     ELSE unwrap(value')[f.ident] # unwrap(value)[f.ident] =>
                              unwrap(last').op = "assign"]_vars

\* new() and then email(..) on {list_params, email}: list_params is still
\* the default
C21_Witness ==
    /\ pc = "derived"
    /\ fields = <<F_list_params, F_email>>
    /\ Len(NewFn.args) = 0
    /\ last # None /\ unwrap(last).op = "set" /\ unwrap(last).ident = "email"
    /\ unwrap(value)["list_params"] = Plain("ListParams", "default")

-----------------------------------------------------------------------------
(* types/pagination.rs: ListParams and its builder methods.                 *)
\* how far around the two ends of the range the arguments of limit go
LimitMargin == 2
\* u32 arguments of limit: around 1, around 100, and two large ones (TLC's
\* integers end at 2^31 - 1)
LimitArgs ==
    (0..(1 + LimitMargin)) \cup ((100 - LimitMargin)..(100 + LimitMargin))
        \cup {200, 2147483647}

\* Ord::clamp
clamp(x, min, max) == IF x < min THEN min ELSE IF x > max THEN max ELSE x

ListParams_new == [limit |-> None, after |-> None, before |-> None]

\* limit clamping from above only
ListParams_limit_min(self, n) == [self EXCEPT !.limit = Some(IF n > 100 THEN 100 ELSE n)]

ListParams_limit(self, n) == [self EXCEPT !.limit = Some(clamp(n, 1, 100))]
ListParams_after(self, id) == [self EXCEPT !.after = Some(into(id, StringTy))]
ListParams_before(self, id) == [self EXCEPT !.before = Some(into(id, StringTy))]

InitListParams ==
    /\ pc = "list_params"
    /\ metas = NoMetas
    /\ item = NoStruct
    /\ fields = <<>>
    /\ mirror = None
    /\ impl = None
    /\ value = Some(ListParams_new)
    /\ last = None

CallLimit(n) ==
    /\ pc = "list_params"
    /\ value' = Some(ListParams_limit(unwrap(value), n))
    /\ last' = Some([op |-> "limit", n |-> n])
    /\ UNCHANGED <<pc, metas, item, fields, mirror, impl>>

CallAfter(id) ==
    /\ pc = "list_params"
    /\ value' = Some(ListParams_after(unwrap(value), id))
    /\ last' = Some([op |-> "after", n |-> 0])
    /\ UNCHANGED <<pc, metas, item, fields, mirror, impl>>

CallBefore(id) ==
    /\ pc = "list_params"
    /\ value' = Some(ListParams_before(unwrap(value), id))
    /\ last' = Some([op |-> "before", n |-> 0])
    /\ UNCHANGED <<pc, metas, item, fields, mirror, impl>>

NextListParams ==
    \/ \E n \in LimitArgs : CallLimit(n)
    \/ \E id \in IntoStringValues : CallAfter(id)
    \/ \E id \in IntoStringValues : CallBefore(id)

SpecListParams == InitListParams /\ [][NextListParams]_vars

\* C24: limit(n) stores n brought into 1..100 (0 gives 1, more than 100
\* gives 100) and leaves after and before alone; after and before leave the
\* limit alone; so from ListParams::new() on the limit is absent or within
\* 1..100.
C24_LimitClamped ==
    /\ [](pc = "list_params" =>
            \/ unwrap(value).limit = None
            \/ unwrap(unwrap(value).limit) \in 1..100)
    /\ [][(pc = "list_params" /\ last' # None) =>
            IF unwrap(last').op = "limit"
            THEN LET n == unwrap(last').n
                 IN /\ unwrap(value').limit =
                          Some(IF n = 0 THEN 1 ELSE IF n > 100 THEN 100 ELSE n)
                    /\ unwrap(value').after = unwrap(value).after
                    /\ unwrap(value').before = unwrap(value).before
            ELSE unwrap(value').limit = unwrap(value).limit]_vars

\* limit(200) after limit(0), with a cursor set
C24_Witness ==
    /\ pc = "list_params"
    /\ last = Some([op |-> "limit", n |-> 200])
    /\ unwrap(value).limit = Some(100)
    /\ unwrap(value).after # None

\* ---------------------------------------------------------------------
\* error.rs: Error, ErrorKind and their accessors.

\* Result::Ok, Result::Err
Ok(x) == [ok |-> TRUE, v |-> x]
Err(e) == [ok |-> FALSE, v |-> e]

ErrorKinds ==
    {"InvalidRequest", "Authentication", "RateLimit", "NotFound",
     "PermissionDenied", "Idempotency", "ServerError", "Unknown"}

\* impl Display for ErrorKind
ErrorKind_to_string(k) ==
    CASE k = "InvalidRequest" -> "invalid_request"
      [] k = "Authentication" -> "authentication_error"
      [] k = "RateLimit" -> "rate_limit"
      [] k = "NotFound" -> "not_found"
      [] k = "PermissionDenied" -> "permission_denied"
      [] k = "Idempotency" -> "idempotency_error"
      [] k = "ServerError" -> "server_error"
      [] k = "Unknown" -> "unknown_error"

\* from_str knowing the short names only
ErrorKind_from_str_short(s) ==
    Ok(CASE s = "invalid_request" -> "InvalidRequest"
         [] s = "authentication" -> "Authentication"
         [] s = "rate_limit" -> "RateLimit"
         [] s = "not_found" -> "NotFound"
         [] s = "permission_denied" -> "PermissionDenied"
         [] s = "idempotency" -> "Idempotency"
         [] s = "server_error" -> "ServerError"
         [] OTHER -> "Unknown")

\* impl FromStr for ErrorKind
ErrorKind_from_str(s) ==
    Ok(CASE s \in {"invalid_request", "invalid_request_error"} -> "InvalidRequest"
         [] s \in {"authentication", "authentication_error"} -> "Authentication"
         [] s \in {"rate_limit", "rate_limit_error"} -> "RateLimit"
         [] s \in {"not_found", "resource_not_found"} -> "NotFound"
         [] s \in {"permission_denied", "forbidden"} -> "PermissionDenied"
         [] s \in {"idempotency", "idempotency_error"} -> "Idempotency"
         [] s \in {"server_error", "internal_server_error"} -> "ServerError"
         [] OTHER -> "Unknown")

\* is_retryable for a rate limit only
ErrorKind_is_retryable_rate_only(k) == k = "RateLimit"

ErrorKind_is_retryable(k) == k \in {"RateLimit", "ServerError"}

\* Error::Api { kind, message, status_code, request_id }
Api(kind, message, status_code, request_id) ==
    [variant |-> "Api", kind |-> kind, message |-> message,
     status_code |-> status_code, request_id |-> request_id]

Error_api(kind, message) == Api(kind, message, None, None)
Error_api_with_status(kind, message, status_code) == Api(kind, message, Some(status_code), None)

Error_is_retryable(self) ==
    CASE self.variant = "Api" -> ErrorKind_is_retryable(self.kind)
      [] self.variant = "RateLimit" -> TRUE
      [] self.variant = "Timeout" -> TRUE
      [] self.variant = "Http" -> self.is_timeout \/ self.is_connect
      [] OTHER -> FALSE

\* status_code answering None for every error
Error_status_code_none(self) == None

Error_status_code(self) ==
    CASE self.variant = "Api" -> self.status_code
      [] OTHER -> None

Error_request_id(self) ==
    CASE self.variant = "Api" -> self.request_id
      [] OTHER -> None

\* the inputs of the error model
Messages == {"resource_invalid_state"}
StatusCodes == {400, 404, 429, 500}
\* the strings from_str is given: every name it knows, every Display output
\* and some it does not know
KindStrings ==
    {"invalid_request", "invalid_request_error", "authentication", "authentication_error",
     "rate_limit", "rate_limit_error", "not_found", "resource_not_found",
     "permission_denied", "forbidden", "idempotency", "idempotency_error",
     "server_error", "internal_server_error"}
        \cup {ErrorKind_to_string(k) : k \in ErrorKinds}
        \cup {"", "unknown", "INVALID_REQUEST", "card_error"}

InitError ==
    /\ pc = "error"
    /\ metas = NoMetas
    /\ item = NoStruct
    /\ fields = <<>>
    /\ mirror = None
    /\ impl = None
    /\ value = None
    /\ last = None

\* Error::api(kind, message)
ConstructApi(kind, message) ==
    /\ pc = "error"
    /\ value' = Some(Error_api(kind, message))
    /\ last' = Some([op |-> "api"])
    /\ UNCHANGED <<pc, metas, item, fields, mirror, impl>>

\* Error::api_with_status(kind, message, status_code)
ConstructApiWithStatus(kind, message, status_code) ==
    /\ pc = "error"
    /\ value' = Some(Error_api_with_status(kind, message, status_code))
    /\ last' = Some([op |-> "api_with_status", status_code |-> status_code])
    /\ UNCHANGED <<pc, metas, item, fields, mirror, impl>>

\* an error written as an enum variant
ConstructVariant(e) ==
    /\ pc = "error"
    /\ value' = Some(e)
    /\ last' = Some([op |-> "variant"])
    /\ UNCHANGED <<pc, metas, item, fields, mirror, impl>>

CallIsRetryable ==
    /\ pc = "error"
    /\ value # None
    /\ last' = Some([op |-> "is_retryable", out |-> Error_is_retryable(unwrap(value))])
    /\ UNCHANGED <<pc, metas, item, fields, mirror, impl, value>>

CallStatusCode ==
    /\ pc = "error"
    /\ value # None
    /\ last' = Some([op |-> "status_code", out |-> Error_status_code(unwrap(value))])
    /\ UNCHANGED <<pc, metas, item, fields, mirror, impl, value>>

CallRequestId ==
    /\ pc = "error"
    /\ value # None
    /\ last' = Some([op |-> "request_id", out |-> Error_request_id(unwrap(value))])
    /\ UNCHANGED <<pc, metas, item, fields, mirror, impl, value>>

CallKindIsRetryable(k) ==
    /\ pc = "error"
    /\ last' = Some([op |-> "kind_is_retryable", kind |-> k, out |-> ErrorKind_is_retryable(k)])
    /\ UNCHANGED <<pc, metas, item, fields, mirror, impl, value>>

\* s.parse::<ErrorKind>()
CallFromStr(s) ==
    /\ pc = "error"
    /\ last' = Some([op |-> "from_str", s |-> s, out |-> ErrorKind_from_str(s)])
    /\ UNCHANGED <<pc, metas, item, fields, mirror, impl, value>>

\* k.to_string()
CallToString(k) ==
    /\ pc = "error"
    /\ last' = Some([op |-> "to_string", kind |-> k, out |-> ErrorKind_to_string(k)])
    /\ UNCHANGED <<pc, metas, item, fields, mirror, impl, value>>

\* the string k.to_string() gave, parsed back
ParseBack ==
    /\ pc = "error"
    /\ last # None
    /\ unwrap(last).op = "to_string"
    /\ last' = Some([op |-> "parse_back", kind |-> unwrap(last).kind,
                     out |-> ErrorKind_from_str(unwrap(last).out)])
    /\ UNCHANGED <<pc, metas, item, fields, mirror, impl, value>>

\* the transport: one request per call, sent with the verb its method is
\* named after, and the outcome handed back as it came; a response with an
\* error status becomes an Api error that carries the status
HttpVerb(method) ==
    CASE method \in {"get", "get_with_params"} -> "GET"
      [] method = "post" -> "POST"
      [] method = "put" -> "PUT"
      [] method = "patch" -> "PATCH"
      [] method = "delete" -> "DELETE"

HttpClient_error(kind, message, status, request_id) ==
    Api(kind, message, Some(status), request_id)

HttpClient_call(method, path, response) ==
    [sent |-> <<[verb |-> HttpVerb(method), path |-> path]>>, result |-> response]

\* the error a call returns for a response with an error status
FromResponse(kind, message, status, request_id) ==
    /\ pc = "error"
    /\ value' = Some(HttpClient_error(kind, message, status, request_id))
    /\ last' = Some([op |-> "response", status_code |-> status])
    /\ UNCHANGED <<pc, metas, item, fields, mirror, impl>>

\* errors written as variants: Api with a request id, Http(reqwest::Error)
\* (is_retryable asks it is_timeout and is_connect), and the variants that
\* carry a message, a duration or a serde_json error
ErrorLiterals ==
    {Api(k, m, Some(400), r) : k \in ErrorKinds, m \in Messages, r \in {None, Some("req_1")}}
        \cup {[variant |-> "Http", is_timeout |-> t, is_connect |-> c] :
                 t \in BOOLEAN, c \in BOOLEAN}
        \cup {[variant |-> v] : v \in
                 {"Json", "Config", "InvalidApiKey", "RateLimit", "Timeout", "InvalidRequest",
                  "NotFound", "Authentication", "PermissionDenied", "Idempotency", "Internal"}}

NextError ==
    \/ \E k \in ErrorKinds, m \in Messages : ConstructApi(k, m)
    \/ \E k \in ErrorKinds, m \in Messages, c \in StatusCodes : ConstructApiWithStatus(k, m, c)
    \/ \E e \in ErrorLiterals : ConstructVariant(e)
    \/ \E k \in ErrorKinds, m \in Messages, c \in StatusCodes, r \in {None, Some("req_1")} :
          FromResponse(k, m, c, r)
    \/ CallIsRetryable
    \/ CallStatusCode
    \/ CallRequestId
    \/ \E k \in ErrorKinds : CallKindIsRetryable(k)
    \/ \E s \in KindStrings : CallFromStr(s)
    \/ \E k \in ErrorKinds : CallToString(k)
    \/ ParseBack

SpecError == InitError /\ [][NextError]_vars

\* the error at hand and the answer of the last call on it
TheError == unwrap(value)
LastOp == IF last = None THEN "" ELSE unwrap(last).op
LastOut == unwrap(last).out

\* C26: ErrorKind::is_retryable is true for RateLimit and ServerError and for
\* no other kind; Error::is_retryable of an Api error is its kind's
\* is_retryable, is true for the RateLimit and Timeout variants and false
\* for Json, Config, InvalidApiKey, InvalidRequest, NotFound,
\* Authentication, PermissionDenied, Idempotency and Internal.
C26_Retryable ==
    /\ LastOp = "kind_is_retryable" =>
          (LastOut <=> unwrap(last).kind \in {"RateLimit", "ServerError"})
    /\ LastOp = "is_retryable" =>
          /\ TheError.variant = "Api" =>
                (LastOut <=> TheError.kind \in {"RateLimit", "ServerError"})
          /\ TheError.variant \in {"RateLimit", "Timeout"} => LastOut
          /\ TheError.variant \in
                {"Json", "Config", "InvalidApiKey", "InvalidRequest", "NotFound",
                 "Authentication", "PermissionDenied", "Idempotency", "Internal"}
                => ~LastOut

\* is_retryable answered true for an Api error of kind ServerError
C26_Witness ==
    /\ LastOp = "is_retryable"
    /\ value # None
    /\ TheError.variant = "Api"
    /\ TheError.kind = "ServerError"
    /\ LastOut

C29_FromStrTotal ==
    /\ LastOp = "from_str" =>
          /\ LastOut.ok
          /\ unwrap(last).s \in {"", "unknown", "INVALID_REQUEST", "card_error"} =>
                LastOut = Ok("Unknown")
    /\ LastOp = "parse_back" => LastOut = Ok(unwrap(last).kind)

\* authentication_error, the Display of Authentication, parsed back
C29_Witness ==
    /\ LastOp = "parse_back"
    /\ unwrap(last).kind = "Authentication"
    /\ LastOut = Ok("Authentication")

\* ---------------------------------------------------------------------
\* resources/*.rs: the methods of the resource clients.

\* a method: the verb and path of its "Endpoint:" line, the HttpClient
\* method it calls and the path it formats
Method(resource, name, verb, doc_path, http, template) ==
    [resource |-> resource, name |-> name,
     endpoint |-> [verb |-> verb, path |-> doc_path],
     http |-> http, template |-> template]

\* the methods of the resource clients, file by file
Methods ==
    {  \* impl BillingStatementLineItems (billing_statement_line_items.rs)
     Method("BillingStatementLineItems", "create", "POST", <<"billing_statement_line_items">>, "post", <<"billing_statement_line_items">>),
     Method("BillingStatementLineItems", "update", "PUT", <<"billing_statement_line_items", ":id">>, "put", <<"billing_statement_line_items", "{}">>),
     Method("BillingStatementLineItems", "delete", "DELETE", <<"billing_statement_line_items", ":id">>, "delete", <<"billing_statement_line_items", "{}">>)}
        \cup
    {  \* impl BillingStatements (billing_statements.rs)
     Method("BillingStatements", "create", "POST", <<"billing_statements">>, "post", <<"billing_statements">>),
     Method("BillingStatements", "retrieve", "GET", <<"billing_statements", ":id">>, "get", <<"billing_statements", "{}">>),
     Method("BillingStatements", "update", "PUT", <<"billing_statements", ":id">>, "put", <<"billing_statements", "{}">>),
     Method("BillingStatements", "delete", "DELETE", <<"billing_statements", ":id">>, "delete", <<"billing_statements", "{}">>),
     Method("BillingStatements", "list", "GET", <<"billing_statements">>, "get_with_params", <<"billing_statements">>),
     Method("BillingStatements", "finalize", "POST", <<"billing_statements", ":id", "finalize">>, "post", <<"billing_statements", "{}", "finalize">>),
     Method("BillingStatements", "send", "POST", <<"billing_statements", ":id", "send">>, "post", <<"billing_statements", "{}", "send">>),
     Method("BillingStatements", "void", "POST", <<"billing_statements", ":id", "void">>, "post", <<"billing_statements", "{}", "void">>),
     Method("BillingStatements", "mark_uncollectible", "POST", <<"billing_statements", ":id", "mark_uncollectible">>, "post", <<"billing_statements", "{}", "mark_uncollectible">>)}
        \cup
    {  \* impl CheckoutSessions (checkout_sessions.rs)
     Method("CheckoutSessions", "create", "POST", <<"checkout_sessions">>, "post", <<"checkout_sessions">>),
     Method("CheckoutSessions", "retrieve", "GET", <<"checkout_sessions", ":id">>, "get", <<"checkout_sessions", "{}">>),
     Method("CheckoutSessions", "expire", "POST", <<"checkout_sessions", ":id", "expire">>, "post", <<"checkout_sessions", "{}", "expire">>)}
        \cup
    {  \* impl Customers (customers.rs)
     Method("Customers", "create", "POST", <<"customers">>, "post", <<"customers">>),
     Method("Customers", "retrieve", "GET", <<"customers", ":id">>, "get", <<"customers", "{}">>),
     Method("Customers", "update", "PUT", <<"customers", ":id">>, "patch", <<"customers", "{}">>),
     Method("Customers", "delete", "DELETE", <<"customers", ":id">>, "delete", <<"customers", "{}">>),
     Method("Customers", "list", "GET", <<"customers">>, "get_with_params", <<"customers">>)}
        \cup
    {  \* impl PaymentIntents (payment_intents.rs)
     Method("PaymentIntents", "create", "POST", <<"payment_intents">>, "post", <<"payment_intents">>),
     Method("PaymentIntents", "retrieve", "GET", <<"payment_intents", ":id">>, "get", <<"payment_intents", "{}">>),
     Method("PaymentIntents", "cancel", "POST", <<"payment_intents", ":id", "cancel">>, "post", <<"payment_intents", "{}", "cancel">>),
     Method("PaymentIntents", "capture", "POST", <<"payment_intents", ":id", "capture">>, "post", <<"payment_intents", "{}", "capture">>)}
        \cup
    {  \* impl Payouts (payouts.rs)
     Method("Payouts", "list_transactions", "GET", <<"payouts", ":id", "transactions">>, "get_with_params", <<"payouts", "{}", "transactions">>)}
        \cup
    {  \* impl Refunds (refunds.rs)
     Method("Refunds", "create", "POST", <<"refunds">>, "post", <<"refunds">>),
     Method("Refunds", "update", "PUT", <<"refunds", ":id">>, "put", <<"refunds", "{}">>)}
        \cup
    {  \* impl Webhooks (webhooks.rs)
     Method("Webhooks", "create", "POST", <<"webhooks">>, "post", <<"webhooks">>),
     Method("Webhooks", "retrieve", "GET", <<"webhooks", ":id">>, "get", <<"webhooks", "{}">>),
     Method("Webhooks", "update", "PUT", <<"webhooks", ":id">>, "put", <<"webhooks", "{}">>),
     Method("Webhooks", "delete", "DELETE", <<"webhooks", ":id">>, "delete", <<"webhooks", "{}">>),
     Method("Webhooks", "list", "GET", <<"webhooks">>, "get_with_params", <<"webhooks">>),
     Method("Webhooks", "enable", "POST", <<"webhooks", ":id", "enable">>, "post", <<"webhooks", "{}", "enable">>),
     Method("Webhooks", "disable", "POST", <<"webhooks", ":id", "disable">>, "post", <<"webhooks", "{}", "disable">>)}

\* format!("/customers/{}", id.as_str())
format(template, id) ==
    [i \in 1..Len(template) |-> IF template[i] = "{}" THEN id ELSE template[i]]

\* the path of an "Endpoint:" line for the resource id
endpoint_path(doc_path, id) ==
    [i \in 1..Len(doc_path) |-> IF doc_path[i] = ":id" THEN id ELSE doc_path[i]]

\* the body of a resource method: self.http.<method>(path, ..).await
call(m, id, response) == HttpClient_call(m.http, format(m.template, id), response)

\* what the server answers: a body, or an error status
Responses ==
    {Ok("body")} \cup
    {Err(HttpClient_error(k, m, c, None)) :
        k \in {"InvalidRequest", "ServerError"}, m \in Messages, c \in {400, 500}}

InitResources ==
    /\ pc = "client"
    /\ metas = NoMetas
    /\ item = NoStruct
    /\ fields = <<>>
    /\ mirror = None
    /\ impl = None
    /\ value = None
    /\ last = None

\* a caller calls the method m for the resource id and the server answers
\* with response; value holds the requests that went out
Invoke(m, id, response) ==
    /\ pc = "client"
    /\ LET out == call(m, id, response)
       IN /\ value' = Some(out.sent)
          /\ last' = Some([op |-> "call", method |-> m, id |-> id,
                           response |-> response, returned |-> out.result])
    /\ UNCHANGED <<pc, metas, item, fields, mirror, impl>>

NextResources == \E m \in Methods, id \in {"id_1", "id_2"}, response \in Responses : Invoke(m, id, response)

SpecResources == InitResources /\ [][NextResources]_vars

\* C22: a call of a resource method sends one request, with the verb and
\* the path of the method's "Endpoint:" line, and returns what the request
\* gave; Customers::update sends PUT /customers/:id.
C22_EndpointAsDocumented ==
    LastOp = "call" =>
        LET m == unwrap(last).method
            sent == unwrap(value)
        IN /\ Len(sent) = 1
           /\ sent[1].verb = m.endpoint.verb
           /\ sent[1].path = endpoint_path(m.endpoint.path, unwrap(last).id)
           /\ unwrap(last).returned = unwrap(last).response
           /\ (m.resource = "Customers" /\ m.name = "update") =>
                 sent[1] = [verb |-> "PUT", path |-> <<"customers", unwrap(last).id>>]

\* ---------------------------------------------------------------------
\* types/event.rs: EventType and its wire form.  A string is the sequence of
\* its characters, so that case and underscores are there to be compared.

UpperCase ==
    <<"A", "B", "C", "D", "E", "F", "G", "H", "I", "J", "K", "L", "M",
      "N", "O", "P", "Q", "R", "S", "T", "U", "V", "W", "X", "Y", "Z">>
LowerCase ==
    <<"a", "b", "c", "d", "e", "f", "g", "h", "i", "j", "k", "l", "m",
      "n", "o", "p", "q", "r", "s", "t", "u", "v", "w", "x", "y", "z">>
is_uppercase(c) == \E i \in 1..Len(UpperCase) : UpperCase[i] = c
to_lowercase_char(c) ==
    IF is_uppercase(c) THEN LowerCase[CHOOSE i \in 1..Len(UpperCase) : UpperCase[i] = c] ELSE c

\* str::to_lowercase
to_lowercase(s) == [i \in 1..Len(s) |-> to_lowercase_char(s[i])]

\* serde's rename_all = "snake_case" of a variant name: an underscore before
\* every capital but the first, all in lower case
snake_case(s) ==
    LET f[i \in 0..Len(s)] ==
            IF i = 0 THEN <<>>
            ELSE f[i - 1] \o (IF i > 1 /\ is_uppercase(s[i]) THEN <<"_">> ELSE <<>>)
                          \o <<to_lowercase_char(s[i])>>
    IN f[Len(s)]

\* str::split
RECURSIVE split(_, _)
split(s, sep) ==
    IF \A i \in 1..Len(s) : s[i] # sep THEN <<s>>
    ELSE LET i == CHOOSE i \in 1..Len(s) : s[i] = sep /\ \A j \in 1..(i - 1) : s[j] # sep
         IN <<SubSeq(s, 1, i - 1)>> \o split(SubSeq(s, i + 1, Len(s)), sep)

\* enum BillingStatementEvent: Created, Updated, Deleted, Finalized, Sent, MarkedUncollectible, Voided, Paid, WillBeDue, Overdue
BillingStatementEvent ==
    {<<"C", "r", "e", "a", "t", "e", "d">>,
     <<"U", "p", "d", "a", "t", "e", "d">>,
     <<"D", "e", "l", "e", "t", "e", "d">>,
     <<"F", "i", "n", "a", "l", "i", "z", "e", "d">>,
     <<"S", "e", "n", "t">>,
     <<"M", "a", "r", "k", "e", "d", "U", "n", "c", "o", "l", "l", "e", "c", "t", "i", "b", "l", "e">>,
     <<"V", "o", "i", "d", "e", "d">>,
     <<"P", "a", "i", "d">>,
     <<"W", "i", "l", "l", "B", "e", "D", "u", "e">>,
     <<"O", "v", "e", "r", "d", "u", "e">>}

\* enum BillingStatementLineItemEvent: Created, Updated, Deleted
BillingStatementLineItemEvent ==
    {<<"C", "r", "e", "a", "t", "e", "d">>,
     <<"U", "p", "d", "a", "t", "e", "d">>,
     <<"D", "e", "l", "e", "t", "e", "d">>}

\* enum CheckoutSessionEvent: Expired
CheckoutSessionEvent ==
    {<<"E", "x", "p", "i", "r", "e", "d">>}

\* enum PaymentIntentEvent: AwaitingCapture, Succeeded
PaymentIntentEvent ==
    {<<"A", "w", "a", "i", "t", "i", "n", "g", "C", "a", "p", "t", "u", "r", "e">>,
     <<"S", "u", "c", "c", "e", "e", "d", "e", "d">>}

\* enum PayoutEvent: Deposited
PayoutEvent ==
    {<<"D", "e", "p", "o", "s", "i", "t", "e", "d">>}

\* enum RefundEvent: Created, Updated
RefundEvent ==
    {<<"C", "r", "e", "a", "t", "e", "d">>,
     <<"U", "p", "d", "a", "t", "e", "d">>}

\* enum EventType
EventTypeOf(resource, e) == [resource |-> resource, event |-> e]
EventTypes ==
    {EventTypeOf("BillingStatement", e) : e \in BillingStatementEvent}
        \cup {EventTypeOf("BillingStatementLineItem", e) : e \in BillingStatementLineItemEvent}
        \cup {EventTypeOf("CheckoutSession", e) : e \in CheckoutSessionEvent}
        \cup {EventTypeOf("PaymentIntent", e) : e \in PaymentIntentEvent}
        \cup {EventTypeOf("Payout", e) : e \in PayoutEvent}
        \cup {EventTypeOf("Refund", e) : e \in RefundEvent}

\* the six prefixes, as Serialize writes them and Deserialize matches them
Prefix(resource) ==
    CASE resource = "BillingStatement" ->
            <<"b", "i", "l", "l", "i", "n", "g", "_", "s", "t", "a", "t", "e", "m", "e", "n", "t">>
      [] resource = "BillingStatementLineItem" ->
            <<"b", "i", "l", "l", "i", "n", "g", "_", "s", "t", "a", "t", "e", "m", "e", "n", "t", "_", "l", "i", "n", "e", "_", "i", "t", "e", "m">>
      [] resource = "CheckoutSession" ->
            <<"c", "h", "e", "c", "k", "o", "u", "t", "_", "s", "e", "s", "s", "i", "o", "n">>
      [] resource = "PaymentIntent" ->
            <<"p", "a", "y", "m", "e", "n", "t", "_", "i", "n", "t", "e", "n", "t">>
      [] resource = "Payout" ->
            <<"p", "a", "y", "o", "u", "t">>
      [] resource = "Refund" ->
            <<"r", "e", "f", "u", "n", "d">>

\* impl Serialize for EventType; {e:?} prints the name of the variant
EventType_serialize(self) ==
    LET s == Prefix(self.resource) \o <<".">> \o self.event
    IN to_lowercase(s)

\* serde_plain::from_str into an event enum renamed to snake_case
from_str_plain(event, variants, resource) ==
    IF \E v \in variants : snake_case(v) = event
    THEN Ok(EventTypeOf(resource, CHOOSE v \in variants : snake_case(v) = event))
    ELSE Err("unknown variant")

\* impl Deserialize for EventType
EventType_deserialize(s) ==
    LET parts == split(s, ".")
    IN IF Len(parts) # 2 THEN Err("invalid event format")
       ELSE LET prefix == parts[1]
                event == parts[2]
            IN
               CASE prefix = Prefix("BillingStatement") -> from_str_plain(event, BillingStatementEvent, "BillingStatement")
                 [] prefix = Prefix("BillingStatementLineItem") -> from_str_plain(event, BillingStatementLineItemEvent, "BillingStatementLineItem")
                 [] prefix = Prefix("CheckoutSession") -> from_str_plain(event, CheckoutSessionEvent, "CheckoutSession")
                 [] prefix = Prefix("PaymentIntent") -> from_str_plain(event, PaymentIntentEvent, "PaymentIntent")
                 [] prefix = Prefix("Payout") -> from_str_plain(event, PayoutEvent, "Payout")
                 [] prefix = Prefix("Refund") -> from_str_plain(event, RefundEvent, "Refund")
                 [] OTHER -> Err("unknown event type")

\* EventType::as_str: serde_plain::to_string(&self).unwrap()
EventType_as_str(self) == EventType_serialize(self)

\* the strings handed to Deserialize: the documented name of every event
\* and four that are no event
WireStrings ==
    {Prefix(e.resource) \o <<".">> \o snake_case(e.event) : e \in EventTypes}
        \cup {Prefix("Refund"),
              Prefix("Refund") \o <<".">> \o Prefix("Payout") \o <<".">> \o Prefix("Refund"),
              Prefix("Refund") \o <<".">> \o Prefix("Payout"),
              <<"x">> \o <<".">> \o Prefix("Payout")}

InitEvent ==
    /\ pc = "event"
    /\ metas = NoMetas
    /\ item = NoStruct
    /\ fields = <<>>
    /\ mirror = None
    /\ impl = None
    /\ value = None
    /\ last = None

\* serde_json::to_string(&e): value holds the string that goes on the wire
Serialize(e) ==
    /\ pc = "event"
    /\ value' = Some(EventType_serialize(e))
    /\ last' = Some([op |-> "serialize", event |-> e, out |-> EventType_serialize(e)])
    /\ UNCHANGED <<pc, metas, item, fields, mirror, impl>>

AsStr(e) ==
    /\ pc = "event"
    /\ last' = Some([op |-> "as_str", event |-> e, out |-> EventType_as_str(e)])
    /\ UNCHANGED <<pc, metas, item, fields, mirror, impl, value>>

\* impl Display for EventType: write!(f, "{}", self.as_str())
Display(e) ==
    /\ pc = "event"
    /\ last' = Some([op |-> "to_string", event |-> e, out |-> EventType_as_str(e)])
    /\ UNCHANGED <<pc, metas, item, fields, mirror, impl, value>>

\* the string on the wire is read back
Deserialize ==
    /\ pc = "event"
    /\ value # None
    /\ last # None
    /\ unwrap(last).op = "serialize"
    /\ last' = Some([op |-> "read_back", event |-> unwrap(last).event,
                     out |-> EventType_deserialize(unwrap(value))])
    /\ UNCHANGED <<pc, metas, item, fields, mirror, impl, value>>

\* a string sent by the server is read
Receive(s) ==
    /\ pc = "event"
    /\ value' = Some(s)
    /\ last' = Some([op |-> "receive", event |-> s, out |-> EventType_deserialize(s)])
    /\ UNCHANGED <<pc, metas, item, fields, mirror, impl>>

NextEvent ==
    \/ \E e \in EventTypes : Serialize(e)
    \/ \E e \in EventTypes : AsStr(e)
    \/ \E e \in EventTypes : Display(e)
    \/ Deserialize
    \/ \E s \in WireStrings : Receive(s)

SpecEvent == InitEvent /\ [][NextEvent]_vars

\* the name the documentation gives an event ("Event type as string
\* representation: 'billing_statement.marked_uncollectible'"): the resource,
\* a dot and the variant in snake_case
Documented(e) == Prefix(e.resource) \o <<".">> \o snake_case(e.event)

\* the examples of event names
Example_marked_uncollectible ==
    <<"b", "i", "l", "l", "i", "n", "g", "_", "s", "t", "a", "t", "e", "m", "e", "n", "t", ".", "m", "a", "r", "k", "e", "d", "_", "u", "n", "c", "o", "l", "l", "e", "c", "t", "i", "b", "l", "e">>
Example_will_be_due ==
    <<"b", "i", "l", "l", "i", "n", "g", "_", "s", "t", "a", "t", "e", "m", "e", "n", "t", ".", "w", "i", "l", "l", "_", "b", "e", "_", "d", "u", "e">>
Example_awaiting_capture ==
    <<"p", "a", "y", "m", "e", "n", "t", "_", "i", "n", "t", "e", "n", "t", ".", "a", "w", "a", "i", "t", "i", "n", "g", "_", "c", "a", "p", "t", "u", "r", "e">>
Example_expired ==
    <<"c", "h", "e", "c", "k", "o", "u", "t", "_", "s", "e", "s", "s", "i", "o", "n", ".", "e", "x", "p", "i", "r", "e", "d">>
Example_updated ==
    <<"r", "e", "f", "u", "n", "d", ".", "u", "p", "d", "a", "t", "e", "d">>

\* C25: serializing an EventType, as_str and Display all give the documented
\* "<resource>.<event>" with the event in snake_case, for every variant of
\* every resource: billing_statement.marked_uncollectible,
\* billing_statement.will_be_due, payment_intent.awaiting_capture,
\* checkout_session.expired, refund.updated.
C25_DocumentedWireName ==
    LastOp \in {"serialize", "as_str", "to_string"} =>
        LET e == unwrap(last).event
        IN /\ LastOut = Documented(e)
           /\ e = EventTypeOf("BillingStatement", <<"M", "a", "r", "k", "e", "d", "U", "n", "c", "o", "l", "l", "e", "c", "t", "i", "b", "l", "e">>) => LastOut = Example_marked_uncollectible
           /\ e = EventTypeOf("BillingStatement", <<"W", "i", "l", "l", "B", "e", "D", "u", "e">>) => LastOut = Example_will_be_due
           /\ e = EventTypeOf("PaymentIntent", <<"A", "w", "a", "i", "t", "i", "n", "g", "C", "a", "p", "t", "u", "r", "e">>) => LastOut = Example_awaiting_capture
           /\ e = EventTypeOf("CheckoutSession", <<"E", "x", "p", "i", "r", "e", "d">>) => LastOut = Example_expired
           /\ e = EventTypeOf("Refund", <<"U", "p", "d", "a", "t", "e", "d">>) => LastOut = Example_updated

\* C28: the string an EventType serializes to deserializes, and to the
\* same EventType, for every variant of every resource.
C28_WireRoundTrip ==
    LastOp = "read_back" => LastOut = Ok(unwrap(last).event)

\* ---------------------------------------------------------------------
\* Serialized request values and the order of builder calls.

\* the keys of a serialized value
KeysOf(json) == {json[i].key : i \in 1..Len(json)}

\* C23: a request value serializes a field if and only if the field is
\* present: an Update* value built by new() alone serializes to the empty
\* object, and after setter calls exactly the fields set and the required
\* fields are in the output.
C23_SerializedIffPresent ==
    (pc = "derived" /\ last # None /\ unwrap(last).op = "to_value") =>
        LET json == unwrap(last).out
            self == unwrap(value)
        IN /\ \A f \in FieldSet : f.ident \in KeysOf(json) <=> self[f.ident] # NoneV
           /\ \A i \in 1..Len(json) : json[i].value = self[json[i].key]
           /\ (\A f \in FieldSet : self[f.ident] = NoneV) => json = <<>>

\* C30: on any value, two generated setters of different fields give the
\* same result in either order, and a setter called with v1 and then with
\* v2 gives what one call with v2 gives.
C30_LastWriteWins ==
    (pc = "derived" /\ value # None) =>
        LET self == unwrap(value)
            fns == unwrap(impl).optional_functions
        IN \A i \in 1..Len(fns) : \A a \in ArgValues(fns[i]) :
              /\ \A j \in (i + 1)..Len(fns) : \A b \in ArgValues(fns[j]) :
                    fns[i].ident # fns[j].ident =>
                        setter(fns[j], setter(fns[i], self, a), b)
                            = setter(fns[i], setter(fns[j], self, b), a)
              /\ \A v2 \in ArgValues(fns[i]) :
                    setter(fns[i], setter(fns[i], self, a), v2) = setter(fns[i], self, v2)

\* an UpdateBillingStatement on which customer_id, description (last with
\* "b") and due_at have been called, due_at last
C30_Witness ==
    /\ pc = "derived"
    /\ item = UpdateBillingStatement
    /\ last # None
    /\ unwrap(last).op = "set"
    /\ unwrap(last).ident = "due_at"
    /\ unwrap(value)["customer_id"] # NoneV
    /\ unwrap(value)["description"] = SomeV(Plain("String", "b"))
    /\ unwrap(value)["due_at"] # NoneV

====
